---- MODULE Spec2Model ----
(***************************************************************************)
(* A model of the document-intelligence RAG pipeline:                      *)
(*   - rag_chain.py    TechnicalQAChain / FastTechnicalQAChain             *)
(*   - vector_store.py VectorStoreManager                                  *)
(*   - main.py         DocumentIntelligenceRAG                             *)
(* Text is modelled as a sequence of one-character strings, so that        *)
(* formatting, stripping and concatenation are computed, not assumed.      *)
(***************************************************************************)
EXTENDS Integers, Sequences, FiniteSets, TLC

VARIABLES
    \* ---- TechnicalQAChain._format_docs applied to an arbitrary list ----
    fmt_docs,       \* the argument `docs`
    fmt_out,        \* the returned text
    fmt_pc,         \* "ready" before the call, "done" after it
    \* ---- DocumentIntelligenceRAG and its QA chain ----
    use_fast_mode,  \* DocumentIntelligenceRAG.use_fast_mode
    llm_model,      \* DocumentIntelligenceRAG.llm_model (LLM_MODEL)
    qa_chain,       \* DocumentIntelligenceRAG.qa_chain: NoChain or a chain object
    index,          \* ids of the documents the vector index holds
    \* ---- the query / stream_query call in progress (or the last one) ----
    op,             \* "none", "query" or "stream"
    pc,             \* position of the call
    question,       \* its argument
    query_docs,     \* query(): its local `docs`, from similarity_search
    context_docs,   \* documents the chain's retriever handed to _format_docs
    prompt,         \* text sent to the generation service
    gen_produced,   \* fragments the generation service has produced
    received,       \* fragments stream_query has yielded to its consumer
    result,         \* dict returned by query()
    error,          \* "none", or the step whose exception ended the call
    retrieval_log,  \* similarity searches requested during the call
    generation_calls, \* generation requests made during the call
    cfg0,           \* configuration when the call began, with the chain the
                    \* caller has set since
    call_chain,     \* the chain object the call runs on: self.qa_chain as the
                    \* call found or initialised it (NoChain before that)
    last_query,     \* question, context and answer of the last completed query()
    prev_failed,    \* whether the call before this one ended in an exception
    \* ---- VectorStoreManager.create_index and the index provider ----
    provider_index, \* the provider's index: "absent", "provisioning", "ready"
    ci_pc,          \* position of the create_index call
    ci_params,      \* its arguments (dimension, metric)
    existing_indexes, \* its local existing_indexes
    ci_created,     \* provider create_index requests the call has made
    ci_history,     \* the create_index calls finished in a row
    ci_disturbed,   \* per call of ci_history, and last for the call in progress
                    \* or to come: whether delete_index ran while it was running
    ci_begun,       \* create_index calls begun
    \* ---- VectorStoreManager.add_documents ----
    ing_pc,         \* position of the add_documents call
    ing_documents,  \* its argument `documents`, as chunk identifiers
    ing_batch_size, \* its argument batch_size
    ing_next,       \* position of the first chunk of the next batch
    ing_failed,     \* the chunks of the batch that failed
    ing_report      \* what the caller of add_documents is told

fmtVars == <<fmt_docs, fmt_out, fmt_pc>>
cfgVars == <<use_fast_mode, llm_model, qa_chain>>
callVars == <<op, pc, question, query_docs, context_docs, prompt, gen_produced,
              received, result, error, retrieval_log, generation_calls, cfg0,
              call_chain, last_query, prev_failed>>
qaVars == <<cfgVars, index, callVars>>
idxVars == <<provider_index, ci_pc, ci_params, existing_indexes, ci_created,
             ci_history, ci_disturbed, ci_begun>>
ingVars == <<ing_pc, ing_documents, ing_batch_size, ing_next, ing_failed,
             ing_report>>
vars == <<fmtVars, qaVars, idxVars, ingVars>>

(***************************************************************************)
(* Bounds of the model.                                                    *)
(***************************************************************************)
MaxFmtDocs == 2        \* longest list handed to _format_docs
NumFragments == 3      \* fragments the generation double streams per answer
MaxCreateIndexCalls == 3 \* create_index calls in one run
MaxChunks == 5         \* most chunks handed to add_documents
MaxBatchSize == 3      \* largest batch_size

(***************************************************************************)
(* Text helpers.                                                           *)
(***************************************************************************)
\* The characters str.strip() removes, i.e. those for which str.isspace()
\* holds: space, TAB, LF, VT (0B), FF, CR, FS GS RS US (1C-1F), NEL (85),
\* NBSP (A0) and OGHAM SPACE MARK (1680), each written as the character itself
\* where the language has no escape for it.  The remaining ones (2000-200A,
\* 2028, 2029, 202F, 205F, 3000) cannot be written in a string of this
\* language, so no text of the model contains them.
Whitespace ==
    {" ", "\t", "\n", "\r", "\f",
     "", "", "", "", "",
     "", " ", " "}

RECURSIVE LStrip(_)
LStrip(s) ==
    IF s # <<>> /\ Head(s) \in Whitespace THEN LStrip(Tail(s)) ELSE s

RECURSIVE RStrip(_)
RStrip(s) ==
    IF s # <<>> /\ s[Len(s)] \in Whitespace
    THEN RStrip(SubSeq(s, 1, Len(s) - 1))
    ELSE s

\* str.strip(): leading and trailing whitespace removed.
Strip(s) == RStrip(LStrip(s))

Digit(d) == <<"0", "1", "2", "3", "4", "5", "6", "7", "8", "9">>[d + 1]

\* The decimal rendering of a natural number, as an f-string renders {i}.
RECURSIVE ToDecimal(_)
ToDecimal(n) ==
    IF n < 10 THEN <<Digit(n)>> ELSE ToDecimal(n \div 10) \o <<Digit(n % 10)>>

\* sep.join(parts)
RECURSIVE Join(_, _)
Join(sep, parts) ==
    IF parts = <<>> THEN <<>>
    ELSE IF Len(parts) = 1 THEN parts[1]
    ELSE parts[1] \o sep \o Join(sep, Tail(parts))

\* Concatenation of a sequence of texts ("".join(parts)).
RECURSIVE Concat(_)
Concat(parts) ==
    IF parts = <<>> THEN <<>> ELSE Head(parts) \o Concat(Tail(parts))

(***************************************************************************)
(* langchain Document: page_content and a metadata dict.  A dict is a set  *)
(* of <<key, value>> pairs with distinct keys.                             *)
(***************************************************************************)
Document(content, md) == [page_content |-> content, metadata |-> md]

\* dict.get(key, default)
DictGet(md, key, default) ==
    IF \E p \in md : p[1] = key
    THEN (CHOOSE p \in md : p[1] = key)[2]
    ELSE default

Unknown == <<"U", "n", "k", "n", "o", "w", "n">>

(***************************************************************************)
(* TechnicalQAChain._format_docs                                           *)
(***************************************************************************)
\* f"Document {i} (Source: {source}):\n{content}"
FormatBlock(i, source, content) ==
    <<"D", "o", "c", "u", "m", "e", "n", "t", " ">> \o ToDecimal(i)
        \o <<" ", "(", "S", "o", "u", "r", "c", "e", ":", " ">> \o source
        \o <<")", ":", "\n">> \o content

\* The loop `for i, doc in enumerate(docs, 1)`: `formatted` after the first
\* n iterations.
RECURSIVE FormattedAfter(_, _)
FormattedAfter(docs, n) ==
    IF n = 0 THEN <<>>
    ELSE LET doc     == docs[n]
             source  == DictGet(doc.metadata, "source", Unknown)
             content == Strip(doc.page_content)
         IN  Append(FormattedAfter(docs, n - 1), FormatBlock(n, source, content))

\* A rendering that numbers the documents from 0.
FormatDocsFromZero(docs) ==
    Join(<<"\n", "\n">>,
         [i \in 1..Len(docs) |->
            FormatBlock(i - 1, DictGet(docs[i].metadata, "source", Unknown),
                        Strip(docs[i].page_content))])
FormatDocs(docs) == Join(<<"\n", "\n">>, FormattedAfter(docs, Len(docs)))

(***************************************************************************)
(* Prompt templates (rag_chain.py).  A template is its literal text cut at *)
(* the placeholders; formatting replaces each placeholder by its value.    *)
(***************************************************************************)
Lit(text) == [kind |-> "lit", text |-> text]
Var(name) == [kind |-> "var", text |-> name]

CHAIN_OF_THOUGHT_TEMPLATE ==
    << Lit("You are a technical expert assistant. Answer the question using the provided context documents.\n\nUse chain-of-thought reasoning:\n1. First, identify the key technical concepts in the question\n2. Then, analyze the relevant information from the context\n3. Finally, provide a clear, accurate answer\n\nContext Documents:\n"),
       Var("context"),
       Lit("\n\nQuestion: "),
       Var("question"),
       Lit("\n\nTechnical Analysis:\nLet me break this down step by step:\n\n1. Key Concepts: [Identify the main technical concepts in the question]\n\n2. Relevant Information: [Extract and analyze relevant details from the context]\n\n3. Answer: [Provide a clear, comprehensive answer]\n\nPlease provide your response following this chain-of-thought structure.") >>

FAST_COT_TEMPLATE ==
    << Lit("Answer this technical question using the context.\n\nContext: "),
       Var("context"),
       Lit("\n\nQuestion: "),
       Var("question"),
       Lit("\n\nAnswer:") >>

\* ChatPromptTemplate.format: the literal pieces (each kept as one element)
\* with the placeholders replaced by the texts of `values`.
FormatTemplate(template, values) ==
    Concat([i \in 1..Len(template) |->
              IF template[i].kind = "lit"
              THEN <<template[i].text>>
              ELSE values[template[i].text]])

(***************************************************************************)
(* Construction of the chains (rag_chain.py).                              *)
(***************************************************************************)
DefaultK == 4
FastK == 3

\* kwargs[key] = value
DictSet(d, key, value) == { p \in d : p[1] # key } \cup { <<key, value>> }

NoChain == [cls |-> "None"]

\* ChatOpenAI(model=..., temperature=..., streaming=True, max_tokens=1000)
ChatOpenAI(model_name, temperature) ==
    [model |-> model_name, temperature |-> temperature,
     streaming |-> TRUE, max_tokens |-> 1000]

\* TechnicalQAChain._build_chain: the retriever takes k, and the pipe takes
\* the prompt and the llm, as they are when the chain is built.
BuildChain(docs_to_retrieve, chainPrompt, llm) ==
    [retriever |-> [search_type |-> "similarity", k |-> docs_to_retrieve],
     prompt    |-> chainPrompt,
     llm       |-> llm]

\* TechnicalQAChain.__init__(vectorstore, model_name, temperature, k)
TechnicalQAChainInit(cls, kwargs) ==
    LET k   == DictGet(kwargs, "k", DefaultK)
        llm == ChatOpenAI(DictGet(kwargs, "model_name", "gpt-4-turbo-preview"),
                          DictGet(kwargs, "temperature", 0))
    IN  [cls              |-> cls,
         docs_to_retrieve |-> k,
         llm              |-> llm,
         prompt           |-> CHAIN_OF_THOUGHT_TEMPLATE,
         chain            |-> BuildChain(k, CHAIN_OF_THOUGHT_TEMPLATE, llm)]

\* A fast chain that overrides the prompt but keeps the chain built by the
\* base constructor.
FastInitNoRebuild(kwargs) ==
    [TechnicalQAChainInit("FastTechnicalQAChain",
        DictSet(DictSet(kwargs, "model_name", "gpt-3.5-turbo"), "k", FastK))
       EXCEPT !.prompt = FAST_COT_TEMPLATE]
\* FastTechnicalQAChain.__init__(vectorstore, **kwargs)
FastTechnicalQAChainInit(kwargs) ==
    LET kw1  == DictSet(kwargs, "model_name", "gpt-3.5-turbo")
        kw2  == DictSet(kw1, "k", FastK)
        base == TechnicalQAChainInit("FastTechnicalQAChain", kw2)
        self == [base EXCEPT !.prompt = FAST_COT_TEMPLATE]
    IN  [self EXCEPT !.chain =
            BuildChain(self.docs_to_retrieve, self.prompt, self.llm)]

\* The chain DocumentIntelligenceRAG.initialize_qa_chain assigns to qa_chain.
InitializedChain(fast, model) ==
    IF fast
    THEN FastTechnicalQAChainInit({})
    ELSE TechnicalQAChainInit("TechnicalQAChain", {<<"model_name", model>>})

\* Keyword arguments a caller of the chain classes may pass.
KwargsChoices ==
    { {}, {<<"k", 5>>}, {<<"k", 1>>, <<"model_name", "gpt-4o">>},
      {<<"temperature", 1>>} }

(***************************************************************************)
(* The vector index and similarity search (vector_store.py, §4.3).         *)
(***************************************************************************)
\* The chunks that may be ingested, by id.
Corpus ==
    << Document(<<"a">>, {<<"source", <<"s">>>>}),
       Document(<<"b">>, {<<"source", <<"s">>>>}),
       Document(<<"c">>, {<<"source", <<"t">>>>}),
       Document(<<"d">>, {<<"source", <<"t">>>>, <<"page", <<"1">>>>}) >>

DocIds == DOMAIN Corpus

Questions == { <<"x">>, <<"y">> }

\* Similarity of a question and a chunk under the index's metric; chunks 2
\* and 3 tie for <<"x">>, chunks 1 and 2 for <<"y">>.
Score(q, id) ==
    IF q = <<"x">> THEN <<3, 2, 2, 1>>[id] ELSE <<1, 1, 2, 3>>[id]

Min2(a, b) == IF a < b THEN a ELSE b

\* Every answer the index may give to a search for the k nearest chunks:
\* min(k, size) distinct chunks, by descending similarity, none left out that
\* is nearer than the last one returned; ties in the index's own order.
SearchResults(idx, q, k) ==
    LET n == Min2(k, Cardinality(idx))
    IN  { r \in [1..n -> idx] :
            /\ \A i, j \in 1..n : i < j =>
                  /\ r[i] # r[j]
                  /\ Score(q, r[i]) >= Score(q, r[j])
            /\ \A d \in idx : (\A i \in 1..n : r[i] # d) =>
                  \A i \in 1..n : Score(q, d) <= Score(q, r[i]) }

DocsOf(r) == [i \in 1..Len(r) |-> Corpus[r[i]]]

(***************************************************************************)
(* The generation service: a deterministic double that streams back the    *)
(* model name and the prompt in NumFragments pieces.                       *)
(***************************************************************************)
Pieces(s, n) ==
    LET size == (Len(s) + n - 1) \div n
    IN  [i \in 1..n |-> SubSeq(s, (i - 1) * size + 1, Min2(i * size, Len(s)))]

LlmFragments(llm, promptText) == Pieces(<<llm.model>> \o promptText, NumFragments)

(***************************************************************************)
(* DocumentIntelligenceRAG.query / stream_query (main.py) running          *)
(* TechnicalQAChain.query / stream_query (rag_chain.py), one call at a     *)
(* time on the caller's thread; ingestion may run beside it.               *)
(***************************************************************************)
NoResult == [returned |-> FALSE, answer |-> <<>>, documents |-> <<>>]
NoQuery == [done |-> FALSE]

Request(q, k, ok) == [query |-> q, k |-> k, ok |-> ok]

CallIdle ==
    /\ op = "none"
    /\ pc = "idle"
    /\ question = <<>>
    /\ query_docs = <<>>
    /\ context_docs = <<>>
    /\ prompt = <<>>
    /\ gen_produced = <<>>
    /\ received = <<>>
    /\ result = NoResult
    /\ error = "none"
    /\ retrieval_log = <<>>
    /\ generation_calls = 0
    /\ cfg0 = [use_fast_mode |-> use_fast_mode, llm_model |-> llm_model,
               qa_chain |-> qa_chain]
    /\ call_chain = NoChain
    /\ last_query = NoQuery
    /\ prev_failed = FALSE

DefaultDimension == 1536

\* create_index at rest.
IdxIdle ==
    /\ provider_index = "absent"
    /\ ci_pc = "idle"
    /\ ci_params = [dimension |-> DefaultDimension, metric |-> "cosine"]
    /\ existing_indexes = {}
    /\ ci_created = 0
    /\ ci_history = <<>>
    /\ ci_disturbed = <<FALSE>>
    /\ ci_begun = 0

\* add_documents at rest.
NoReport == [status |-> "none", failed |-> {}, upserted |-> {}]

IngIdle ==
    /\ ing_pc = "idle"
    /\ ing_documents = <<>>
    /\ ing_batch_size = 1
    /\ ing_next = 1
    /\ ing_failed = {}
    /\ ing_report = NoReport

\* The pipeline at rest, for the specifications that do not run it.
QaIdle ==
    /\ use_fast_mode = TRUE
    /\ llm_model = "gpt-4-turbo-preview"
    /\ qa_chain = NoChain
    /\ index = {}
    /\ CallIdle

\* _format_docs at rest, for the specifications that do not call it alone.
FmtIdle ==
    /\ fmt_docs = <<>>
    /\ fmt_out = <<>>
    /\ fmt_pc = "ready"

\* The chunks the index holds when the pipeline is constructed.
InitialIndex == {1, 2, 3}

QaInit ==
    /\ FmtIdle
    /\ IdxIdle
    /\ IngIdle
    /\ use_fast_mode \in BOOLEAN
    /\ llm_model \in {"gpt-4-turbo-preview", "gpt-4o"}
    /\ qa_chain = NoChain
    /\ index = InitialIndex
    /\ CallIdle

\* A caller enters query(question) or stream_query(question); the locals of
\* the call are fresh.
Begin(o, q) ==
    /\ pc \in {"idle", "returned", "raised"}
    /\ op' = o
    /\ question' = q
    /\ pc' = "init"
    /\ query_docs' = <<>>
    /\ context_docs' = <<>>
    /\ prompt' = <<>>
    /\ gen_produced' = <<>>
    /\ received' = <<>>
    /\ result' = NoResult
    /\ error' = "none"
    /\ retrieval_log' = <<>>
    /\ generation_calls' = 0
    /\ cfg0' = [use_fast_mode |-> use_fast_mode, llm_model |-> llm_model,
                qa_chain |-> qa_chain]
    /\ call_chain' = NoChain
    /\ prev_failed' = (pc = "raised")
    /\ UNCHANGED <<cfgVars, index, last_query, fmtVars, idxVars, ingVars>>

\* Where the call goes once self.qa_chain is set: query() starts with the
\* similarity search, stream_query() with the chain itself.
AfterInit(o) == IF o = "query" THEN "search" ELSE "retrieve"

\* query / stream_query: `if self.qa_chain is None` is false; the call goes
\* on with self.qa_chain as it is.
ChainAlreadySet ==
    /\ pc = "init"
    /\ qa_chain # NoChain
    /\ call_chain' = qa_chain
    /\ pc' = AfterInit(op)
    /\ UNCHANGED <<cfgVars, index, op, question, query_docs, context_docs, prompt,
                   gen_produced, received, result, error, retrieval_log,
                   generation_calls, cfg0, last_query, prev_failed, fmtVars, idxVars, ingVars>>

\* query / stream_query: `if self.qa_chain is None` is true, and the
\* initialize_qa_chain() they call succeeds and assigns self.qa_chain.
InitializeQaChain ==
    /\ pc = "init"
    /\ qa_chain = NoChain
    /\ qa_chain' = InitializedChain(use_fast_mode, llm_model)
    /\ call_chain' = qa_chain'
    /\ pc' = AfterInit(op)
    /\ UNCHANGED <<use_fast_mode, llm_model, index, op, question, query_docs,
                   context_docs, prompt, gen_produced, received, result, error,
                   retrieval_log, generation_calls, cfg0, last_query, prev_failed, fmtVars, idxVars, ingVars>>

\* A failed initialisation that drops the configured mode.
InitializeQaChainRaisesResetsMode ==
    /\ pc = "init"
    /\ qa_chain = NoChain
    /\ pc' = "raised"
    /\ error' = "init"
    /\ use_fast_mode' = FALSE
    /\ UNCHANGED <<llm_model, qa_chain, index, op, question, query_docs, context_docs,
                   prompt, gen_produced, received, result, retrieval_log,
                   generation_calls, cfg0, call_chain, last_query, prev_failed, fmtVars, idxVars, ingVars>>
\* initialize_qa_chain() raises (get_vectorstore or a chain constructor
\* fails) before self.qa_chain is assigned.
InitializeQaChainRaises ==
    /\ pc = "init"
    /\ qa_chain = NoChain
    /\ pc' = "raised"
    /\ error' = "init"
    /\ UNCHANGED <<cfgVars, index, op, question, query_docs, context_docs, prompt,
                   gen_produced, received, result, retrieval_log,
                   generation_calls, cfg0, call_chain, last_query, prev_failed, fmtVars, idxVars, ingVars>>

\* docs = self.vectorstore.similarity_search(question, k=self.docs_to_retrieve)
QuerySimilaritySearch ==
    /\ pc = "search"
    /\ \E r \in SearchResults(index, question, call_chain.docs_to_retrieve) :
          query_docs' = DocsOf(r)
    /\ retrieval_log' =
          Append(retrieval_log, Request(question, call_chain.docs_to_retrieve, TRUE))
    /\ pc' = "retrieve"
    /\ UNCHANGED <<cfgVars, index, op, question, context_docs, prompt,
                   gen_produced, received, result, error, generation_calls,
                   cfg0, call_chain, last_query, prev_failed, fmtVars, idxVars, ingVars>>

\* The similarity search (embedding the question, or the index) raises.
QuerySimilaritySearchRaises ==
    /\ pc = "search"
    /\ retrieval_log' =
          Append(retrieval_log, Request(question, call_chain.docs_to_retrieve, FALSE))
    /\ pc' = "raised"
    /\ error' = "retrieval"
    /\ UNCHANGED <<cfgVars, index, op, question, query_docs, context_docs, prompt,
                   gen_produced, received, result, generation_calls, cfg0, call_chain,
                   last_query, prev_failed, fmtVars, idxVars, ingVars>>

\* self.chain.invoke / self.chain.stream, first stage: the retriever searches
\* with the k and the question it was given, _format_docs renders the result
\* and the prompt template is formatted.
\* A stream_query whose prompt is built from the question alone: the
\* documents are retrieved but not formatted into the context.
ChainRetrieveStreamWithoutContext ==
    /\ pc = "retrieve"
    /\ \E r \in SearchResults(index, question, call_chain.chain.retriever.k) :
          /\ context_docs' = DocsOf(r)
          /\ prompt' = FormatTemplate(call_chain.chain.prompt,
                          [context  |-> IF op = "stream" THEN <<>>
                                        ELSE FormatDocs(DocsOf(r)),
                           question |-> question])
    /\ retrieval_log' =
          Append(retrieval_log, Request(question, call_chain.chain.retriever.k, TRUE))
    /\ pc' = "generate"
    /\ UNCHANGED <<cfgVars, index, op, question, query_docs, gen_produced, received,
                   result, error, generation_calls, cfg0, call_chain, last_query, prev_failed, fmtVars, idxVars, ingVars>>
ChainRetrieve ==
    /\ pc = "retrieve"
    /\ \E r \in SearchResults(index, question, call_chain.chain.retriever.k) :
          /\ context_docs' = DocsOf(r)
          /\ prompt' = FormatTemplate(call_chain.chain.prompt,
                          [context  |-> FormatDocs(DocsOf(r)),
                           question |-> question])
    /\ retrieval_log' =
          Append(retrieval_log, Request(question, call_chain.chain.retriever.k, TRUE))
    /\ pc' = "generate"
    /\ UNCHANGED <<cfgVars, index, op, question, query_docs, gen_produced, received,
                   result, error, generation_calls, cfg0, call_chain, last_query, prev_failed, fmtVars, idxVars, ingVars>>

\* A chain that answers from an empty context when its retriever raises.
ChainRetrieveRaisesFallsBack ==
    /\ pc = "retrieve"
    /\ context_docs' = <<>>
    /\ prompt' = FormatTemplate(call_chain.chain.prompt,
                    [context |-> <<>>, question |-> question])
    /\ retrieval_log' =
          Append(retrieval_log, Request(question, call_chain.chain.retriever.k, FALSE))
    /\ pc' = "generate"
    /\ UNCHANGED <<cfgVars, index, op, question, query_docs, gen_produced, received,
                   result, error, generation_calls, cfg0, call_chain, last_query, prev_failed, fmtVars, idxVars, ingVars>>
\* The chain's retriever raises: the exception leaves invoke / stream.
ChainRetrieveRaises ==
    /\ pc = "retrieve"
    /\ retrieval_log' =
          Append(retrieval_log, Request(question, call_chain.chain.retriever.k, FALSE))
    /\ pc' = "raised"
    /\ error' = "retrieval"
    /\ UNCHANGED <<cfgVars, index, op, question, query_docs, context_docs, prompt,
                   gen_produced, received, result, generation_calls, cfg0, call_chain,
                   last_query, prev_failed, fmtVars, idxVars, ingVars>>

\* What the generation service streams for the call's prompt.
Fragments == LlmFragments(call_chain.chain.llm, prompt)

\* The string chain.invoke returns: the llm's output, aggregated over its
\* fragments, through StrOutputParser.
InvokeAnswer(fragments) == Concat(fragments)

\* query(): self.chain.invoke completes; the answer is the output of the
\* llm (its fragments joined) parsed to a string; the dict is returned.
QueryGenerate ==
    /\ pc = "generate"
    /\ op = "query"
    /\ generation_calls' = generation_calls + 1
    /\ gen_produced' = Fragments
    /\ result' = [returned |-> TRUE, answer |-> InvokeAnswer(Fragments),
                  documents |-> query_docs]
    /\ last_query' = [done |-> TRUE, question |-> question,
                      chain |-> call_chain,
                      request |-> retrieval_log[Len(retrieval_log)],
                      context_docs |-> context_docs, prompt |-> prompt,
                      answer |-> InvokeAnswer(Fragments)]
    /\ pc' = "returned"
    /\ UNCHANGED <<cfgVars, index, op, question, query_docs, context_docs, prompt,
                   received, error, retrieval_log, cfg0, call_chain, prev_failed, fmtVars, idxVars, ingVars>>

\* query(): the generation service fails after n fragments; invoke raises.
QueryGenerateRaises ==
    /\ pc = "generate"
    /\ op = "query"
    /\ generation_calls' = generation_calls + 1
    /\ \E n \in 0..Len(Fragments) : gen_produced' = SubSeq(Fragments, 1, n)
    /\ pc' = "raised"
    /\ error' = "generation"
    /\ UNCHANGED <<cfgVars, index, op, question, query_docs, context_docs, prompt,
                   received, result, retrieval_log, cfg0, call_chain, last_query, prev_failed, fmtVars, idxVars, ingVars>>

\* stream_query(): the chain opens the generation stream.
StreamOpen ==
    /\ pc = "generate"
    /\ op = "stream"
    /\ generation_calls' = generation_calls + 1
    /\ pc' = "streaming"
    /\ UNCHANGED <<cfgVars, index, op, question, query_docs, context_docs, prompt,
                   gen_produced, received, result, error, retrieval_log, cfg0, call_chain,
                   last_query, prev_failed, fmtVars, idxVars, ingVars>>

\* A delivery that puts the newest fragment first.
YieldNewestFirst(got, chunk) == <<chunk>> \o got
\* What `for chunk in self.chain.stream(question): yield chunk` hands to the
\* consumer when the service produces `chunk`.
Yield(got, chunk) == Append(got, chunk)

\* The service produces its next fragment, which is yielded at once and
\* printed by DocumentIntelligenceRAG.stream_query.
StreamFragment ==
    /\ pc = "streaming"
    /\ Len(gen_produced) < Len(Fragments)
    /\ LET chunk == Fragments[Len(gen_produced) + 1]
       IN  /\ gen_produced' = Append(gen_produced, chunk)
           /\ received' = Yield(received, chunk)
    /\ UNCHANGED <<cfgVars, index, op, pc, question, query_docs, context_docs, prompt,
                   result, error, retrieval_log, generation_calls, cfg0, call_chain,
                   last_query, prev_failed, fmtVars, idxVars, ingVars>>

\* The service fails mid-stream: the exception leaves the generator.
StreamRaises ==
    /\ pc = "streaming"
    /\ pc' = "raised"
    /\ error' = "generation"
    /\ UNCHANGED <<cfgVars, index, op, question, query_docs, context_docs, prompt,
                   gen_produced, received, result, retrieval_log,
                   generation_calls, cfg0, call_chain, last_query, prev_failed, fmtVars, idxVars, ingVars>>

\* The stream is exhausted: the generator returns.
StreamEnd ==
    /\ pc = "streaming"
    /\ Len(gen_produced) = Len(Fragments)
    /\ pc' = "returned"
    /\ UNCHANGED <<cfgVars, index, op, question, query_docs, context_docs, prompt,
                   gen_produced, received, result, error, retrieval_log,
                   generation_calls, cfg0, call_chain, last_query, prev_failed, fmtVars, idxVars, ingVars>>

\* A caller builds a chain from the classes directly, with its own keyword
\* arguments, and uses it as the pipeline's chain.
ConstructChain(cls, kwargs) ==
    /\ pc = "idle"
    /\ qa_chain = NoChain
    /\ qa_chain' = IF cls = "FastTechnicalQAChain"
                   THEN FastTechnicalQAChainInit(kwargs)
                   ELSE TechnicalQAChainInit(cls, kwargs)
    /\ cfg0' = [cfg0 EXCEPT !.qa_chain = qa_chain']
    /\ UNCHANGED <<use_fast_mode, llm_model, index, op, pc, question, query_docs,
                   context_docs, prompt, gen_produced, received, result, error,
                   retrieval_log, generation_calls, call_chain, last_query, prev_failed, fmtVars, idxVars, ingVars>>

\* The caller calls initialize_qa_chain() itself, between the calls of query
\* and stream_query: self.qa_chain is assigned the chain of the configured
\* mode, whether or not a chain was set before.
CallInitializeQaChain ==
    /\ pc \in {"idle", "returned", "raised"}
    /\ qa_chain' = InitializedChain(use_fast_mode, llm_model)
    /\ cfg0' = [cfg0 EXCEPT !.qa_chain = qa_chain']
    /\ UNCHANGED <<use_fast_mode, llm_model, index, op, pc, question, query_docs,
                   context_docs, prompt, gen_produced, received, result, error,
                   retrieval_log, generation_calls, call_chain, last_query,
                   prev_failed, fmtVars, idxVars, ingVars>>

\* Ingestion running beside the queries upserts a chunk into the index.
Upsert(d) ==
    /\ d \notin index
    /\ index' = index \cup {d}
    /\ UNCHANGED <<cfgVars, callVars, fmtVars, idxVars, ingVars>>

QaNext ==
    \/ \E o \in {"query", "stream"}, q \in Questions : Begin(o, q)
    \/ ChainAlreadySet
    \/ InitializeQaChain
    \/ InitializeQaChainRaises
    \/ QuerySimilaritySearch
    \/ QuerySimilaritySearchRaises
    \/ ChainRetrieve
    \/ ChainRetrieveRaises
    \/ QueryGenerate
    \/ QueryGenerateRaises
    \/ StreamOpen
    \/ StreamFragment
    \/ StreamRaises
    \/ StreamEnd
    \/ \E cls \in {"TechnicalQAChain", "FastTechnicalQAChain"},
          kwargs \in KwargsChoices : ConstructChain(cls, kwargs)
    \/ CallInitializeQaChain
    \/ \E d \in DocIds : Upsert(d)

(***************************************************************************)
(* VectorStoreManager.create_index / delete_index (vector_store.py) and    *)
(* the provider's index of the manager's index_name.                       *)
(***************************************************************************)
\* Arguments create_index is called with; the provider rejects a dimension
\* below 1.
IndexParams ==
    { [dimension |-> d, metric |-> "cosine"] : d \in {DefaultDimension, 0} }

ProviderRejects(params) == params.dimension < 1

\* The index may exist (and be ready, with or without vectors in it) before
\* the manager is constructed.
IdxInit ==
    /\ provider_index \in {"absent", "ready"}
    /\ ci_pc = "idle"
    /\ ci_params = [dimension |-> DefaultDimension, metric |-> "cosine"]
    /\ existing_indexes = {}
    /\ ci_created = 0
    /\ ci_history = <<>>
    /\ ci_disturbed = <<FALSE>>
    /\ ci_begun = 0
    /\ use_fast_mode = TRUE
    /\ llm_model = "gpt-4-turbo-preview"
    /\ qa_chain = NoChain
    /\ index \in (IF provider_index = "ready" THEN {{}, {1, 2}} ELSE {{}})
    /\ CallIdle
    /\ FmtIdle
    /\ IngIdle

IndexName == "document-intelligence"

\* A caller enters create_index(dimension, metric).
CreateIndexBegin(params) ==
    /\ ci_pc \in {"idle", "returned", "raised"}
    /\ ci_begun < MaxCreateIndexCalls
    /\ ci_begun' = ci_begun + 1
    /\ ci_params' = params
    /\ ci_created' = 0
    /\ existing_indexes' = {}
    /\ ci_pc' = "list"
    /\ UNCHANGED <<provider_index, ci_history, ci_disturbed, qaVars, fmtVars,
                   ingVars>>

\* existing_indexes = [index.name for index in self.pc.list_indexes()]
\* and the test `self.index_name not in existing_indexes`.
ListIndexes ==
    /\ ci_pc = "list"
    /\ existing_indexes' =
          IF provider_index = "absent" THEN {} ELSE {IndexName}
    /\ ci_pc' = IF IndexName \notin existing_indexes' THEN "create" ELSE "exists"
    /\ UNCHANGED <<provider_index, ci_params, ci_created, ci_history,
                   ci_disturbed, ci_begun, qaVars, fmtVars, ingVars>>

\* The record of a finished call, appended to the calls made in a row.
Finished(outcome) ==
    [params |-> ci_params, absent |-> existing_indexes = {},
     created |-> ci_created, outcome |-> outcome]

\* self.pc.list_indexes() raises (the provider cannot be reached, or refuses
\* the key): the exception leaves create_index, which has listed nothing and
\* requested nothing.
ListIndexesRaises ==
    /\ ci_pc = "list"
    /\ ci_pc' = "raised"
    /\ ci_history' = Append(ci_history, Finished("raised"))
    /\ ci_disturbed' = Append(ci_disturbed, FALSE)
    /\ UNCHANGED <<provider_index, ci_params, existing_indexes, ci_created,
                   ci_begun, qaVars, fmtVars, ingVars>>

\* self.pc.create_index(...) is accepted: the provider starts provisioning.
ProviderCreateIndex ==
    /\ ci_pc = "create"
    /\ provider_index = "absent"
    /\ ~ProviderRejects(ci_params)
    /\ ci_created' = ci_created + 1
    /\ provider_index' = "provisioning"
    /\ ci_pc' = "describe"
    /\ UNCHANGED <<ci_params, existing_indexes, ci_history, ci_disturbed,
                   ci_begun, qaVars, fmtVars, ingVars>>

\* self.pc.create_index(...) raises: the provider rejects the parameters, the
\* name is taken, or the request itself fails (provider unreachable, 5xx,
\* quota).  Nothing catches it; the request was made and no index is created.
ProviderCreateIndexRaises ==
    /\ ci_pc = "create"
    /\ ci_created' = ci_created + 1
    /\ ci_pc' = "raised"
    /\ ci_history' = Append(ci_history,
                        [Finished("raised") EXCEPT !.created = ci_created + 1])
    /\ ci_disturbed' = Append(ci_disturbed, FALSE)
    /\ UNCHANGED <<provider_index, ci_params, existing_indexes, ci_begun,
                   qaVars, fmtVars, ingVars>>

\* while not self.pc.describe_index(self.index_name).status['ready']:
\* the provider describes the index; the loop ends, and create_index returns,
\* when the status is ready.
DescribeIndex ==
    /\ ci_pc = "describe"
    /\ provider_index # "absent"
    /\ IF provider_index = "ready"
       THEN /\ ci_pc' = "returned"
            /\ ci_history' = Append(ci_history, Finished("returned"))
            /\ ci_disturbed' = Append(ci_disturbed, FALSE)
       ELSE /\ ci_pc' = "sleep"
            /\ UNCHANGED <<ci_history, ci_disturbed>>
    /\ UNCHANGED <<provider_index, ci_params, existing_indexes, ci_created,
                   ci_begun, qaVars, fmtVars, ingVars>>

\* self.pc.describe_index(self.index_name) raises during the wait: the
\* provider fails, or the index is no longer there (deleted while the call
\* polls).  Nothing catches it: the exception leaves create_index.
DescribeIndexRaises ==
    /\ ci_pc = "describe"
    /\ ci_pc' = "raised"
    /\ ci_history' = Append(ci_history, Finished("raised"))
    /\ ci_disturbed' = Append(ci_disturbed, FALSE)
    /\ UNCHANGED <<provider_index, ci_params, existing_indexes, ci_created,
                   ci_begun, qaVars, fmtVars, ingVars>>

\* time.sleep(1), then the loop tests again.
Sleep ==
    /\ ci_pc = "sleep"
    /\ ci_pc' = "describe"
    /\ UNCHANGED <<provider_index, ci_params, existing_indexes, ci_created,
                   ci_history, ci_disturbed, ci_begun, qaVars, fmtVars,
                   ingVars>>

\* A second call that creates the index again although it is listed.
AlreadyExistsCreatesAgain ==
    /\ ci_pc = "exists"
    /\ ci_created' = ci_created + 1
    /\ ci_pc' = "raised"
    /\ ci_history' = Append(ci_history,
                        [Finished("raised") EXCEPT !.created = ci_created + 1])
    /\ ci_disturbed' = Append(ci_disturbed, FALSE)
    /\ UNCHANGED <<provider_index, ci_params, existing_indexes, ci_begun,
                   qaVars, fmtVars, ingVars>>
\* else: print("... already exists") and return.
AlreadyExists ==
    /\ ci_pc = "exists"
    /\ ci_pc' = "returned"
    /\ ci_history' = Append(ci_history, Finished("returned"))
    /\ ci_disturbed' = Append(ci_disturbed, FALSE)
    /\ UNCHANGED <<provider_index, ci_params, existing_indexes, ci_created,
                   ci_begun, qaVars, fmtVars, ingVars>>

\* The provider finishes provisioning the index.
ProviderBecomesReady ==
    /\ provider_index = "provisioning"
    /\ provider_index' = "ready"
    /\ UNCHANGED <<ci_pc, ci_params, existing_indexes, ci_created, ci_history,
                   ci_disturbed, ci_begun, qaVars, fmtVars, ingVars>>

\* Another client of the provider (another VectorStoreManager with the same
\* index_name, at any moment) has its create request accepted: the index
\* exists from then on and is being provisioned.
OtherClientCreatesIndex ==
    /\ provider_index = "absent"
    /\ provider_index' = "provisioning"
    /\ UNCHANGED <<ci_pc, ci_params, existing_indexes, ci_created, ci_history,
                   ci_disturbed, ci_begun, qaVars, fmtVars, ingVars>>

\* delete_index(): self.pc.delete_index(self.index_name), at any moment, by
\* this or another thread or client: the index and the vectors it held are
\* gone.  The calls that follow are no longer in a row with the earlier
\* ones, and a create_index call in progress is marked as disturbed.
DeleteIndex ==
    /\ provider_index # "absent"
    /\ provider_index' = "absent"
    /\ index' = {}
    /\ ci_history' = <<>>
    /\ ci_disturbed' = <<ci_pc \notin {"idle", "returned", "raised"}>>
    /\ UNCHANGED <<ci_pc, ci_params, existing_indexes, ci_created, ci_begun,
                   cfgVars, callVars, fmtVars, ingVars>>

\* The steps the thread inside create_index takes by itself.
CreateIndexStep ==
    \/ ListIndexes
    \/ ListIndexesRaises
    \/ ProviderCreateIndex
    \/ ProviderCreateIndexRaises
    \/ DescribeIndex
    \/ DescribeIndexRaises
    \/ Sleep
    \/ AlreadyExists

IdxNext ==
    \/ \E params \in IndexParams : CreateIndexBegin(params)
    \/ ListIndexes
    \/ ListIndexesRaises
    \/ ProviderCreateIndex
    \/ ProviderCreateIndexRaises
    \/ DescribeIndex
    \/ DescribeIndexRaises
    \/ Sleep
    \/ AlreadyExists
    \/ ProviderBecomesReady
    \/ OtherClientCreatesIndex
    \/ DeleteIndex

SpecIndex == IdxInit /\ [][IdxNext]_vars

\* The thread that called create_index keeps running; nothing obliges the
\* provider to finish provisioning, or to fail.
FairSpecIndex == SpecIndex /\ WF_vars(CreateIndexStep)

(***************************************************************************)
(* VectorStoreManager.add_documents (vector_store.py): from_documents      *)
(* embeds and upserts the documents batch by batch, in order; the first    *)
(* batch that fails raises out of add_documents.                           *)
(***************************************************************************)
IngInit ==
    /\ IngIdle
    /\ IdxIdle
    /\ QaIdle
    /\ FmtIdle

\* A caller enters add_documents(documents, batch_size) with n chunks,
\* identified 1..n.
AddDocumentsBegin(n, batch_size) ==
    /\ ing_pc \in {"idle", "returned", "raised"}
    /\ ing_documents' = [i \in 1..n |-> i]
    /\ ing_batch_size' = batch_size
    /\ ing_next' = 1
    /\ ing_failed' = {}
    /\ ing_report' = NoReport
    /\ ing_pc' = "upserting"
    /\ UNCHANGED <<idxVars, qaVars, fmtVars>>

\* The chunks of the batch that starts at position ing_next.
CurrentBatch ==
    { ing_documents[i] :
        i \in ing_next..Min2(ing_next + ing_batch_size - 1, Len(ing_documents)) }

\* The next batch is embedded and upserted.
UpsertBatch ==
    /\ ing_pc = "upserting"
    /\ ing_next <= Len(ing_documents)
    /\ index' = index \cup CurrentBatch
    /\ ing_next' = ing_next + ing_batch_size
    /\ UNCHANGED <<ing_pc, ing_documents, ing_batch_size, ing_failed,
                   ing_report, idxVars, cfgVars, callVars, fmtVars>>

\* What the caller of add_documents learns when a batch fails: the
\* exception of the embedding or index client, which names no chunk.
RaisedReport(failedBatch, upsertedBefore) ==
    [status |-> "raised", failed |-> {}, upserted |-> {}]

\* Embedding or upserting the next batch fails: the exception leaves
\* from_documents and add_documents; earlier batches stay in the index.
UpsertBatchRaises ==
    /\ ing_pc = "upserting"
    /\ ing_next <= Len(ing_documents)
    /\ ing_failed' = CurrentBatch
    /\ ing_report' = RaisedReport(CurrentBatch, index)
    /\ ing_pc' = "raised"
    /\ UNCHANGED <<ing_documents, ing_batch_size, ing_next, idxVars, qaVars,
                   fmtVars>>

\* All batches are in: add_documents returns the vector store.
AddDocumentsReturn ==
    /\ ing_pc = "upserting"
    /\ ing_next > Len(ing_documents)
    /\ ing_report' = [status |-> "returned", failed |-> {},
                      upserted |-> { ing_documents[i] : i \in DOMAIN ing_documents }]
    /\ ing_pc' = "returned"
    /\ UNCHANGED <<ing_documents, ing_batch_size, ing_next, ing_failed,
                   idxVars, qaVars, fmtVars>>

IngNext ==
    \/ \E n \in 0..MaxChunks, b \in 1..MaxBatchSize : AddDocumentsBegin(n, b)
    \/ UpsertBatch
    \/ UpsertBatchRaises
    \/ AddDocumentsReturn

SpecIngest == IngInit /\ [][IngNext]_vars

(***************************************************************************)
(* Inputs of _format_docs: every list of at most MaxFmtDocs documents over *)
(* a small alphabet that has whitespace at either end, inside, or nowhere; *)
(* the last content is wrapped in a vertical tab and a no-break space.     *)
(***************************************************************************)
FmtContents ==
    { <<"a">>, <<" ", "a">>, <<"a", "\n">>, <<"a", " ", "b">>, <<>>, <<" ">>,
      <<"", "a", " ">> }

FmtMetadata ==
    { {}, {<<"source", <<"s">>>>}, {<<"source", <<"t">>>>},
      {<<"source", <<"s">>>>, <<"page", <<"1">>>>} }

FmtDocuments == { Document(c, md) : c \in FmtContents, md \in FmtMetadata }

RECURSIVE SeqsUpTo(_, _)
SeqsUpTo(S, n) ==
    IF n = 0 THEN {<<>>}
    ELSE LET shorter == SeqsUpTo(S, n - 1)
         IN  shorter \cup { Append(s, e) : s \in shorter, e \in S }

FmtInit ==
    /\ fmt_docs \in SeqsUpTo(FmtDocuments, MaxFmtDocs)
    /\ fmt_out = <<>>
    /\ fmt_pc = "ready"
    /\ QaIdle
    /\ IdxIdle
    /\ IngIdle

\* context = self._format_docs(docs)
CallFormatDocs ==
    /\ fmt_pc = "ready"
    /\ fmt_out' = FormatDocs(fmt_docs)
    /\ fmt_pc' = "done"
    /\ UNCHANGED <<fmt_docs, qaVars, idxVars, ingVars>>

FmtNext == CallFormatDocs

SpecFormat == FmtInit /\ [][FmtNext]_vars

Spec == QaInit /\ [][QaNext]_vars

(***************************************************************************)
(* C1                                                                      *)
(***************************************************************************)
\* C1: a query() call that has returned issued exactly one similarity search
\* to the vector store, for the standard and the fast chain alike.
C1_SingleRetrievalPerQuery ==
    (op = "query" /\ pc = "returned") => Len(retrieval_log) = 1

(***************************************************************************)
(* C2                                                                      *)
(***************************************************************************)
RetrievalFailed == \E i \in 1..Len(retrieval_log) : ~retrieval_log[i].ok

\* C2: once a retrieval step of a call has failed, the call has ended with
\* the retrieval error, the generation service was not invoked in it (zero
\* generation calls, nothing produced) and no answer was returned.
C2_NoGenerationAfterRetrievalFailure ==
    RetrievalFailed =>
        /\ pc = "raised"
        /\ error = "retrieval"
        /\ generation_calls = 0
        /\ gen_produced = <<>>
        /\ result = NoResult

\* A query() whose similarity search succeeded and whose chain retriever
\* then failed.
C2_Witness ==
    /\ op = "query"
    /\ pc = "raised"
    /\ Len(retrieval_log) = 2
    /\ retrieval_log[1].ok
    /\ ~retrieval_log[2].ok

(***************************************************************************)
(* C3                                                                      *)
(***************************************************************************)
\* C3 as stated: two create_index calls made in a row with the same
\* parameters make exactly one creation call to the provider between them,
\* and the second finishes without error.
C3_ExactlyOneCreation ==
    \A i \in 1..(Len(ci_history) - 1) :
        LET first  == ci_history[i]
            second == ci_history[i + 1]
        IN  first.params = second.params =>
                /\ first.created + second.created = 1
                /\ second.outcome = "returned"

\* C3, amended: of two create_index calls made in a row with the same
\* parameters, the first of which returned without delete_index running
\* meanwhile, the second makes no creation call; together they make exactly
\* one creation call when the index was absent before the first, and none
\* when it existed already; and the second ends in an error only when its
\* list_indexes call raised, so that it listed nothing.
C3_CreateIndexIdempotent ==
    \A i \in 1..(Len(ci_history) - 1) :
        LET first  == ci_history[i]
            second == ci_history[i + 1]
        IN  (/\ first.params = second.params
             /\ first.outcome = "returned"
             /\ ~ci_disturbed[i]) =>
                /\ second.created = 0
                /\ first.created + second.created =
                      IF first.absent THEN 1 ELSE 0
                /\ second.outcome = "raised" => second.absent

\* Two calls in a row with the same parameters, the first of which found no
\* index and created it, and the second of which returned.
C3_Witness ==
    /\ Len(ci_history) >= 2
    /\ ~ci_disturbed[1]
    /\ ci_history[1].absent
    /\ ci_history[1].created = 1
    /\ ci_history[1].outcome = "returned"
    /\ ci_history[2].params = ci_history[1].params
    /\ ci_history[2].outcome = "returned"

(***************************************************************************)
(* C4                                                                      *)
(***************************************************************************)
\* C4: the readiness wait of create_index always terminates: a call that
\* waits for readiness ends, returning or raising, whatever the provider
\* does.
C4_ReadinessWaitTerminates ==
    (ci_pc = "describe") ~> (ci_pc \in {"returned", "raised"})

(***************************************************************************)
(* C7                                                                      *)
(***************************************************************************)
\* C7: when a batch fails, the caller of add_documents is told exactly the
\* chunks of the failed batch as failed and the chunks of every earlier batch
\* as upserted.
C7_BatchFailureAttribution ==
    ing_pc = "raised" =>
        /\ ing_report.failed = ing_failed
        /\ ing_report.upserted = { ing_documents[i] : i \in 1..(ing_next - 1) }

(***************************************************************************)
(* C5                                                                      *)
(***************************************************************************)
PromptFrom(template) ==
    FormatTemplate(template, [context  |-> FormatDocs(context_docs),
                              question |-> question])

\* C5: a FastTechnicalQAChain never requests more than the fast mode's k
\* documents and every prompt it builds is the fast template filled in, not
\* the standard one; a TechnicalQAChain builds every prompt from the standard
\* template, not the fast one.  Whatever keyword arguments built the chain.
C5_ModeIsolation ==
    /\ qa_chain.cls = "FastTechnicalQAChain" => qa_chain.docs_to_retrieve = FastK
    /\ call_chain.cls = "FastTechnicalQAChain" =>
          /\ call_chain.docs_to_retrieve = FastK
          /\ \A i \in 1..Len(retrieval_log) : retrieval_log[i].k <= FastK
          /\ prompt # <<>> =>
                /\ prompt = PromptFrom(FAST_COT_TEMPLATE)
                /\ prompt # PromptFrom(CHAIN_OF_THOUGHT_TEMPLATE)
    /\ (call_chain.cls = "TechnicalQAChain" /\ prompt # <<>>) =>
          /\ prompt = PromptFrom(CHAIN_OF_THOUGHT_TEMPLATE)
          /\ prompt # PromptFrom(FAST_COT_TEMPLATE)

\* A fast chain built with a keyword argument of its own has answered a
\* query over an index of four chunks with three of them.
C5_Witness ==
    /\ call_chain.cls = "FastTechnicalQAChain"
    /\ call_chain.llm.temperature = 1
    /\ op = "query"
    /\ pc = "returned"
    /\ Cardinality(index) = 4
    /\ Len(context_docs) = 3
    /\ Len(retrieval_log) = 2

(***************************************************************************)
(* C6                                                                      *)
(***************************************************************************)
\* The stream_query in progress (or just ended) follows a completed
\* query(question) on the same question and runs on the same chain object.
StreamAfterQuery ==
    /\ op = "stream"
    /\ last_query.done
    /\ last_query.question = question
    /\ last_query.chain = call_chain

\* C6 as stated: with the question, the index contents and the generation
\* output fixed (the index only grows, so one that holds InitialIndex has
\* held it since the start), a stream_query that returned has built the
\* query's prompt and its fragments, concatenated in order, are the query's
\* answer.
C6_FixedIndexEquivalence ==
    (StreamAfterQuery /\ pc = "returned" /\ index = InitialIndex) =>
        /\ prompt = last_query.prompt
        /\ Concat(received) = last_query.answer

\* C6, amended: a stream_query(question) that follows a completed
\* query(question) on the same chain issues the same retrieval request
\* (question and k); when the index answers it with the same documents in
\* the same order, the prompt is the query's prompt; and with the same prompt
\* the fragments yielded so far, concatenated in order, are at every moment a
\* prefix of the query's answer, and the whole of it once the stream has
\* returned.
C6_StreamingEquivalence ==
    StreamAfterQuery =>
        /\ prompt # <<>> =>
              retrieval_log[Len(retrieval_log)] = last_query.request
        /\ (prompt # <<>> /\ context_docs = last_query.context_docs) =>
              prompt = last_query.prompt
        /\ (prompt # <<>> /\ prompt = last_query.prompt) =>
              /\ Concat(received) =
                    SubSeq(last_query.answer, 1, Len(Concat(received)))
              /\ pc = "returned" => Concat(received) = last_query.answer

\* A stream that completed after a query on the same question and the same
\* retrieved documents, with more than one fragment.
C6_Witness ==
    /\ StreamAfterQuery
    /\ pc = "returned"
    /\ context_docs = last_query.context_docs
    /\ Len(received) > 1
    /\ Len(context_docs) > 1

(***************************************************************************)
(* C8                                                                      *)
(***************************************************************************)
\* C8: in stream_query the consumer has received exactly the fragments the
\* generation service has produced, in its order; a stream that returned has
\* delivered them all; after a failure following n fragments the consumer
\* holds exactly those n; and once the stream has ended (exhausted or failed)
\* nothing more is received from it.
C8_StreamOrder ==
    /\ [](op = "stream" => received = gen_produced)
    /\ []((op = "stream" /\ generation_calls = 1) =>
             received = SubSeq(Fragments, 1, Len(received)))
    /\ []((op = "stream" /\ pc = "returned") => received = Fragments)
    /\ [][(op = "stream" /\ pc \in {"returned", "raised"}) =>
             (received' = received \/ pc' = "init")]_vars

\* A stream that failed after two fragments had reached the consumer.
C8_Witness ==
    /\ op = "stream"
    /\ pc = "raised"
    /\ error = "generation"
    /\ Len(received) = 2
    /\ received[1] # received[2]

(***************************************************************************)
(* C10                                                                     *)
(***************************************************************************)
ConfigUnchanged ==
    /\ use_fast_mode = cfg0.use_fast_mode
    /\ llm_model = cfg0.llm_model
    /\ cfg0.qa_chain # NoChain => qa_chain = cfg0.qa_chain
    /\ cfg0.qa_chain = NoChain =>
          qa_chain \in {NoChain,
                        InitializedChain(cfg0.use_fast_mode, cfg0.llm_model)}

FreshCall ==
    /\ query_docs = <<>>
    /\ context_docs = <<>>
    /\ prompt = <<>>
    /\ gen_produced = <<>>
    /\ received = <<>>
    /\ result = NoResult
    /\ error = "none"
    /\ retrieval_log = <<>>
    /\ generation_calls = 0

\* C10: a call that ended in an exception (initialisation, retrieval or
\* generation) has left use_fast_mode, llm_model and an already initialised
\* qa_chain (its k, prompt and model) as they were when it began; the call
\* that follows starts from that configuration with nothing left over from
\* the failed one, and when it returns it has done what any call does: a
\* query returns the answer generated for its own prompt and the documents
\* of its own search.
C10_FailureLeavesConfiguration ==
    /\ pc = "raised" => ConfigUnchanged
    /\ (prev_failed /\ pc = "init") =>
          /\ FreshCall
          /\ cfg0 = [use_fast_mode |-> use_fast_mode, llm_model |-> llm_model,
                     qa_chain |-> qa_chain]
    /\ (prev_failed /\ pc # "idle") => ConfigUnchanged
    /\ (prev_failed /\ pc = "returned" /\ op = "query") =>
          /\ result.returned
          /\ result.answer = Concat(LlmFragments(call_chain.chain.llm, prompt))
          /\ result.documents = query_docs
          /\ prompt = FormatTemplate(call_chain.prompt,
                         [context  |-> FormatDocs(context_docs),
                          question |-> question])

\* A query that returned an answer right after a call that failed.
C10_Witness ==
    /\ prev_failed
    /\ op = "query"
    /\ pc = "returned"
    /\ result.returned
    /\ use_fast_mode

(***************************************************************************)
(* C11                                                                     *)
(***************************************************************************)
\* C11: when create_index has returned without error (and delete_index ran
\* neither during the call nor since), the index exists and the provider
\* reports it as ready, whether the call created it or found it listed.
C11_ReturnedMeansReady ==
    (/\ ci_pc = "returned"
     /\ ci_history # <<>>
     /\ ~ci_disturbed[Len(ci_history)]) => provider_index = "ready"

(***************************************************************************)
(* C12                                                                     *)
(***************************************************************************)
\* C12: the documents a query() returns are exactly the documents, in the
\* same order, that were formatted into the context of the prompt that
\* produced the returned answer.
C12_DocumentsAreTheContext ==
    (op = "query" /\ pc = "returned") =>
        /\ result.documents = context_docs
        /\ prompt = FormatTemplate(call_chain.chain.prompt,
                        [context  |-> FormatDocs(result.documents),
                         question |-> question])

(***************************************************************************)
(* C9                                                                      *)
(***************************************************************************)
\* The rendering the specification describes, built from the last block
\* backwards: block i is "Document i (Source: <source>):\n<content>", the
\* blocks are separated by one blank line and keep the order of the list.
RECURSIVE ReferenceRendering(_)
ReferenceRendering(items) ==
    IF items = <<>> THEN <<>>
    ELSE LET n     == Len(items)
             block == <<"D", "o", "c", "u", "m", "e", "n", "t", " ">>
                        \o ToDecimal(n) \o <<" ", "(", "S", "o", "u", "r", "c", "e", ":", " ">>
                        \o items[n].source \o <<")", ":", "\n">> \o items[n].content
         IN  IF n = 1 THEN block
             ELSE ReferenceRendering(SubSeq(items, 1, n - 1)) \o <<"\n", "\n">> \o block

HasSource(doc) == \E p \in doc.metadata : p[1] = "source"
SourceField(doc) == (CHOOSE p \in doc.metadata : p[1] = "source")[2]
RawContent(doc) == doc.page_content
SourceOrUnknown(doc) == IF HasSource(doc) THEN SourceField(doc) ELSE Unknown
\* The content between its first and its last non-whitespace character.
StrippedContent(doc) ==
    LET s    == doc.page_content
        keep == { i \in 1..Len(s) : s[i] \notin Whitespace }
    IN  IF keep = {} THEN <<>>
        ELSE SubSeq(s, CHOOSE i \in keep : \A j \in keep : i <= j,
                       CHOOSE i \in keep : \A j \in keep : j <= i)

\* C9 as stated: for every list whose documents carry a source, the output of
\* _format_docs is the reference rendering with <content> the document's
\* content, unchanged.
C9_OriginalRendering ==
    (fmt_pc = "done" /\ \A i \in 1..Len(fmt_docs) : HasSource(fmt_docs[i]))
        => fmt_out = ReferenceRendering(
                         [i \in 1..Len(fmt_docs) |->
                            [source  |-> SourceField(fmt_docs[i]),
                             content |-> RawContent(fmt_docs[i])]])

\* C9 amended: for every list, the output of _format_docs is the reference
\* rendering with <content> the document's content stripped of leading and
\* trailing whitespace and <source> the metadata source, or "Unknown" when the
\* metadata has none.
C9_StrippedRendering ==
    fmt_pc = "done"
        => fmt_out = ReferenceRendering(
                         [i \in 1..Len(fmt_docs) |->
                            [source  |-> SourceOrUnknown(fmt_docs[i]),
                             content |-> StrippedContent(fmt_docs[i])]])

\* Two documents, the first with whitespace around its content and the second
\* without a source, have been formatted.
C9_Witness ==
    /\ fmt_pc = "done"
    /\ Len(fmt_docs) = 2
    /\ fmt_docs[1].page_content # StrippedContent(fmt_docs[1])
    /\ fmt_out # <<>>
    /\ ~HasSource(fmt_docs[2])
    /\ fmt_docs[1] # fmt_docs[2]

====
